---- MODULE Spec2Model ----
(***************************************************************************)
(* Model of mikeio1d.Res1D (src/mikeio1d/res1d.py): the facade object that *)
(* forwards reads, value queries, modifications and extractions to the     *)
(* MIKE 1D engine.  The engine is modelled by the calls made on it, which  *)
(* every operation records, in order, in last.calls.                       *)
(***************************************************************************)
EXTENDS Integers, Sequences, FiniteSets, TLC

\* ------------------------------------------------------------------ bounds
MaxPathLen == 3      \* longest output path, in path atoms
MaxId      == 1      \* node / reach ids are 1..MaxId
MaxArgLen  == 1      \* longest explicit query list passed to read / extract

\* ------------------------------------------------------- python values
None       == [tag |-> "None"]
ListOf(s)  == [tag |-> "list", items |-> s]
Single(q)  == [tag |-> "query", q |-> q]

SeqsUpTo(S, n) == UNION {[1..k -> S] : k \in 0..n}

Last(s) == s[Len(s)]

\* ------------------------------------------------------- query objects
QueryDataNode(id)  == [type |-> "node",  quantity |-> "WaterLevel", id |-> id]
QueryDataReach(id) == [type |-> "reach", quantity |-> "Discharge",  id |-> id]

\* The queries the caller works with: one at a node, one on a reach.
QueryUniverse == {QueryDataNode(1), QueryDataReach(1)}

QueryArgs == {None} \cup {ListOf(s) : s \in SeqsUpTo(QueryUniverse, MaxArgLen)}
                    \cup {Single(q) : q \in QueryUniverse}

\* ------------------------------------------------------- paths
\* A path is a sequence of atoms: the extension separator, the directory
\* separator, and words that hold neither.
PathAtoms == {".", "/", "csv", "dfs0", "txt"}
Paths     == SeqsUpTo(PathAtoms, MaxPathLen) \ {<<>>}
SavePaths == {<<"csv", ".", "txt">>, <<"txt">>}
OriginalPath == <<"dfs0">>
ExtractTargets == {<<"csv", ".", "csv">>, <<"txt">>}
DefaultTarget == <<"csv", ".", "csv">>
Str(s) == [tag |-> "str", s |-> s]
File(d) == [tag |-> "file", data |-> d]

RECURSIVE rfind(_, _)
rfind(p, c) == IF p = <<>> THEN 0
               ELSE IF Last(p) = c THEN Len(p)
               ELSE rfind(SubSeq(p, 1, Len(p) - 1), c)

\* os.path.splitext: the extension starts at the last dot, provided that dot
\* lies after the last separator and some character of the file name before
\* it is not a dot.
splitext(p) ==
    LET sepIndex == rfind(p, "/")
        dotIndex == rfind(p, ".")
    IN  IF dotIndex > sepIndex
           /\ \E filenameIndex \in (sepIndex + 1)..(dotIndex - 1) : p[filenameIndex] # "."
        THEN <<SubSeq(p, 1, dotIndex - 1), SubSeq(p, dotIndex, Len(p))>>
        ELSE <<p, <<>>>>

\* ------------------------------------------------------- state
VARIABLES
    clear_queries_after_reading, \* Res1D.clear_queries_after_reading
    lts_result_file,             \* what result_reader.is_lts_result_file() answers
    filters,                     \* reaches / nodes / catchments given to the reader
    queries,                     \* result_network.queries, aliased as _queries
    queries_ids,                 \* result_network.queries_ids
    connection_path,             \* data.Connection.FilePath.Path
    result_data,                 \* the in-memory ResultData: data frames applied
    saved,                       \* files written by data.Save(), by path
    target,                      \* file_path of the extract calls made on the object
    last                         \* the last operation: arguments, calls, outcome

vars == <<clear_queries_after_reading, lts_result_file, filters, queries,
          queries_ids, connection_path, result_data, saved, target, last>>

config == <<clear_queries_after_reading, lts_result_file, filters, target>>
engine == <<connection_path, result_data, saved>>

Call(fn, arg) == [fn |-> fn, arg |-> arg]
Returned(v)   == [status |-> "returned", value |-> v]
Raised(e)     == [status |-> "raised", exc |-> e]
Op(name, args, calls, result) ==
    [op |-> name, args |-> args, calls |-> calls, result |-> result]

\* ------------------------------------------------------- the reader
FilterLists == {None, ListOf(<<>>)} \cup {ListOf(<<i>>) : i \in 1..MaxId}

FilterItems(f) == IF f.tag = "list" THEN {f.items[i] : i \in DOMAIN f.items} ELSE {}

\* Variant: any list given, even an empty one, switches filtering on.
ReaderUsesFilterGiven(f) ==
    f.reaches # None \/ f.nodes # None \/ f.catchments # None

\* A filter that names no element filters nothing.
ReaderUsesFilter(f) ==
    FilterItems(f.reaches) \cup FilterItems(f.nodes) \cup FilterItems(f.catchments) # {}

Loaded(f, q) ==
    \/ ~ReaderUsesFilter(f)
    \/ q.type = "node"  /\ q.id \in FilterItems(f.nodes)
    \/ q.type = "reach" /\ q.id \in FilterItems(f.reaches)

RECURSIVE Columns(_, _, _)
Columns(f, type, i) ==
    IF i > MaxId THEN <<>>
    ELSE LET q == IF type = "node" THEN QueryDataNode(i) ELSE QueryDataReach(i)
         IN  (IF Loaded(f, q) THEN <<q>> ELSE <<>>) \o Columns(f, type, i + 1)

\* result_reader.read_all(): every loaded time series, nodes before reaches.
ReaderReadAll(f, data) ==
    [columns |-> Columns(f, "node", 1) \o Columns(f, "reach", 1), data |-> data]

\* result_reader.read(queries): one column per query, in the order given.
ReaderRead(qs, data) == [columns |-> qs, data |-> data]

\* ------------------------------------------------------- construction
InitReaderArgs(reaches, nodes, catchments) ==
    [reaches |-> reaches, nodes |-> nodes, catchments |-> catchments]

\* Res1D.__init__: the state of a new object.
Construct(reaches, nodes, catchments, clear, lts, tgt) ==
    /\ clear_queries_after_reading = clear
    /\ lts_result_file = lts
    /\ filters = InitReaderArgs(reaches, nodes, catchments)
    /\ last = Op("__init__",
                 [reaches |-> reaches, nodes |-> nodes, catchments |-> catchments],
                 <<Call("ResultReaderCreator.create", <<reaches, nodes, catchments>>)>>,
                 Returned(None))
    /\ queries = <<>>
    /\ queries_ids = {}
    /\ connection_path = OriginalPath
    /\ result_data = <<>>
    /\ saved = [p \in SavePaths |-> None]
    /\ target = tgt

Init ==
    \E reaches \in FilterLists, nodes \in FilterLists, catchments \in {None, ListOf(<<>>)},
       clear \in BOOLEAN, lts \in BOOLEAN :
        Construct(reaches, nodes, catchments, clear, lts, DefaultTarget)

\* ------------------------------------------------------- private methods
\* Variant: an empty list given is taken for no list given.
_get_actual_queries_falsy(active, qarg) ==
    LET q1 == IF qarg = None \/ qarg = ListOf(<<>>) THEN ListOf(active) ELSE qarg
    IN  IF q1.tag = "list" THEN q1.items ELSE <<q1.q>>

\* The list of queries to use: the active list when none is given, a single
\* query wrapped in a list.
_get_actual_queries(active, qarg) ==
    LET q1 == IF qarg = None THEN ListOf(active) ELSE qarg
    IN  IF q1.tag = "list" THEN q1.items ELSE <<q1.q>>

\* ------------------------------------------------------- the network
\* result_network.add_query: a query not yet active is appended, and its id
\* is recorded.
AddQuery(q) ==
    /\ q \notin queries_ids
    /\ queries' = Append(queries, q)
    /\ queries_ids' = queries_ids \cup {q}
    /\ last' = Op("add_query", [query |-> q], <<>>, Returned(None))
    /\ UNCHANGED <<config, engine>>

\* ------------------------------------------------------- read
ReadAllOutcome(f, data, fail) ==
    [calls  |-> <<Call("result_reader.read_all", None)>>,
     result |-> IF fail THEN Raised("engine: read_all")
                ELSE Returned(ReaderReadAll(f, data))]

\* Variant: no queries given always reads everything.
ReadOutcomeAll(f, data, active, qarg, fail) ==
    IF qarg = None
    THEN ReadAllOutcome(f, data, fail)
    ELSE LET qs == _get_actual_queries(active, qarg)
         IN  [calls  |-> <<Call("result_reader.read", qs)>>,
              result |-> IF fail THEN Raised("engine: read")
                         ELSE Returned(ReaderRead(qs, data))]

ReadOutcome(f, data, active, qarg, fail) ==
    IF qarg = None /\ Len(active) = 0
    THEN ReadAllOutcome(f, data, fail)
    ELSE LET qs == _get_actual_queries(active, qarg)
         IN  [calls  |-> <<Call("result_reader.read", qs)>>,
              result |-> IF fail THEN Raised("engine: read")
                         ELSE Returned(ReaderRead(qs, data))]

Read(qarg, fail) ==
    /\ LET out == ReadOutcome(filters, result_data, queries, qarg, fail)
       IN  last' = Op("read", [queries |-> qarg], out.calls, out.result)
    /\ UNCHANGED <<config, engine, queries, queries_ids>>

ReadAll(fail) ==
    /\ LET out == ReadAllOutcome(filters, result_data, fail)
       IN  last' = Op("read_all", [queries |-> None], out.calls, out.result)
    /\ UNCHANGED <<config, engine, queries, queries_ids>>

\* ------------------------------------------------------- clear_queries
\* Variant: the id collection is left as it is.
ClearedQueriesOnly(qs, ids) == [queries |-> <<>>, queries_ids |-> ids]

ClearedQueries(qs, ids) == [queries |-> <<>>, queries_ids |-> {}]

ClearQueries ==
    /\ LET c == ClearedQueries(queries, queries_ids)
       IN  queries' = c.queries /\ queries_ids' = c.queries_ids
    /\ last' = Op("clear_queries", None, <<>>, Returned(None))
    /\ UNCHANGED <<config, engine>>

\* ------------------------------------------------------- query wrappers
Reaches   == 1..MaxId
Chainages == {0, 10}
Times     == {[kind |-> "DateTime", sec |-> 1], [kind |-> "datetime", sec |-> 1]}

to_dotnet_datetime(t) == [kind |-> "DateTime", sec |-> t.sec]

\* Variant: the time is converted before the file kind is looked at.
GetReachValueOutcomeLate(lts, reach_name, chainage, quantity, time, fail) ==
    LET asked       == Call("result_reader.is_lts_result_file", None)
        time_dotnet == IF time.kind = "DateTime" THEN time ELSE to_dotnet_datetime(time)
        converted   == IF time.kind = "DateTime" THEN <<>>
                       ELSE <<Call("to_dotnet_datetime", time)>>
        reached     == Call("query.GetReachValue",
                            <<reach_name, chainage, quantity, time_dotnet>>)
    IN  IF lts
        THEN [calls |-> converted \o <<asked>>, result |-> Raised("NotImplementedError")]
        ELSE [calls  |-> converted \o <<asked, reached>>,
              result |-> IF fail THEN Raised("engine: GetReachValue")
                         ELSE Returned([value_of |-> reached.arg, data |-> result_data])]

GetReachValueOutcome(lts, reach_name, chainage, quantity, time, fail) ==
    LET asked == Call("result_reader.is_lts_result_file", None)
    IN  IF lts
        THEN [calls |-> <<asked>>, result |-> Raised("NotImplementedError")]
        ELSE LET time_dotnet == IF time.kind = "DateTime" THEN time
                                ELSE to_dotnet_datetime(time)
                 converted   == IF time.kind = "DateTime" THEN <<>>
                                ELSE <<Call("to_dotnet_datetime", time)>>
                 reached     == Call("query.GetReachValue",
                                     <<reach_name, chainage, quantity, time_dotnet>>)
             IN  [calls  |-> <<asked>> \o converted \o <<reached>>,
                  result |-> IF fail THEN Raised("engine: GetReachValue")
                             ELSE Returned([value_of |-> reached.arg, data |-> result_data])]

GetReachValue(reach_name, chainage, quantity, time, fail) ==
    /\ LET out == GetReachValueOutcome(lts_result_file, reach_name, chainage,
                                       quantity, time, fail)
       IN  last' = Op("get_reach_value",
                      [reach_name |-> reach_name, chainage |-> chainage,
                       quantity |-> quantity, time |-> time],
                      out.calls, out.result)
    /\ UNCHANGED <<config, engine, queries, queries_ids>>

\* ------------------------------------------------------- modify / save
MaxModifications == 2
DataFrames == {"df1", "df2"}
SaveArgs   == {Str(p) : p \in SavePaths}

\* Variant: the result data is saved before the connection path is set.
SaveOutcomeEarly(path_before, files, data, file_path, fail) ==
    [calls           |-> <<Call("data.Save", path_before),
                           Call("data.Connection.FilePath.Path =", file_path.s)>>,
     connection_path |-> file_path.s,
     saved           |-> IF fail \/ path_before \notin DOMAIN files THEN files
                         ELSE [files EXCEPT ![path_before] = File(data)],
     result          |-> IF fail THEN Raised("engine: Save") ELSE Returned(None)]

\* Res1D.save: the connection path is set, then the result data saved under
\* the path the connection holds at that moment.
SaveOutcome(path_before, files, data, file_path, fail) ==
    LET path_set == file_path.s
        calls    == <<Call("data.Connection.FilePath.Path =", file_path.s),
                      Call("data.Save", path_set)>>
    IN  [calls           |-> calls,
         connection_path |-> path_set,
         saved           |-> IF fail THEN files
                             ELSE [files EXCEPT ![path_set] = File(data)],
         result          |-> IF fail THEN Raised("engine: Save") ELSE Returned(None)]

Save(file_path, fail) ==
    /\ LET out == SaveOutcome(connection_path, saved, result_data, file_path, fail)
       IN  /\ connection_path' = out.connection_path
           /\ saved' = out.saved
           /\ last' = Op("save", [file_path |-> file_path], out.calls, out.result)
    /\ UNCHANGED <<config, queries, queries_ids, result_data>>

ModifyOutcome(path_before, files, data, data_frame, file_path, fail) ==
    LET modified == Call("result_writer.modify", data_frame)
        unsaved(d, calls, result) ==
            [calls |-> calls, result_data |-> d, connection_path |-> path_before,
             saved |-> files, result |-> result]
    IN  IF fail = "modify"
        THEN unsaved(data, <<modified>>, Raised("engine: modify"))
        ELSE LET data2 == Append(data, data_frame)
             IN  IF file_path # None
                 THEN LET out == SaveOutcome(path_before, files, data2, file_path,
                                             fail = "save")
                      IN  [calls           |-> <<modified>> \o out.calls,
                           result_data     |-> data2,
                           connection_path |-> out.connection_path,
                           saved           |-> out.saved,
                           result          |-> out.result]
                 ELSE unsaved(data2, <<modified>>, Returned(None))

Modify(data_frame, file_path, fail) ==
    /\ Len(result_data) < MaxModifications
    /\ LET out == ModifyOutcome(connection_path, saved, result_data,
                                data_frame, file_path, fail)
       IN  /\ result_data' = out.result_data
           /\ connection_path' = out.connection_path
           /\ saved' = out.saved
           /\ last' = Op("modify", [data_frame |-> data_frame, file_path |-> file_path],
                         out.calls, out.result)
    /\ UNCHANGED <<config, queries, queries_ids>>

\* ------------------------------------------------------- extract
DefaultSkip == 1

\* result_extractor.ExtractorOutputFileType
CSV  == <<"csv">>
DFS0 == <<"dfs0">>
TXT  == <<"txt">>

ExtArgs == {None, Str(CSV), Str(DFS0), Str(TXT)}

\* ExtractorCreator.create: the writer a format selects.
ExtractorWriter(fmt) ==
    CASE fmt \in {<<"csv">>,  <<".", "csv">>}  -> "CSV"
      [] fmt \in {<<"dfs0">>, <<".", "dfs0">>} -> "DFS0"
      [] fmt \in {<<"txt">>,  <<".", "txt">>}  -> "TXT"
      [] OTHER -> "unsupported"

\* Variant: the extension of the path wins whenever the path has one.
ExtractFormatPathFirst(file_path, ext) ==
    IF ext = None \/ Last(splitext(file_path)) # <<>>
    THEN Last(splitext(file_path)) ELSE ext.s

\* Variant: the root of the split path is taken, not its extension.
ExtractFormatRoot(file_path, ext) ==
    IF ext = None THEN splitext(file_path)[1] ELSE ext.s

ExtractFormat(file_path, ext) ==
    IF ext = None THEN Last(splitext(file_path)) ELSE ext.s

ExtractFailures == {"none", "convert", "create", "export"}

\* Variant: the queries are cleared before the export is made.
ExtractOutcomeClearFirst(active, ids, clear, file_path, qarg, ext, fail) ==
    LET fmt       == ExtractFormat(file_path, ext)
        qs        == _get_actual_queries(active, qarg)
        converted == Call("result_network.convert_queries_to_data_entries", qs)
        created   == Call("ExtractorCreator.create",
                          [format |-> fmt, file_path |-> file_path, data_entries |-> qs,
                           data |-> result_data, skip |-> DefaultSkip])
        exported  == Call("extractor.export",
                          [writer |-> ExtractorWriter(fmt), file_path |-> file_path])
        kept(calls, result) ==
            [calls |-> calls, result |-> result, queries |-> active, queries_ids |-> ids]
        cleared(calls, result) ==
            IF clear
            THEN [calls |-> calls, result |-> result, queries |-> <<>>, queries_ids |-> {}]
            ELSE kept(calls, result)
    IN  IF fail = "convert"
        THEN kept(<<converted>>, Raised("engine: convert"))
        ELSE IF fail = "create" \/ ExtractorWriter(fmt) = "unsupported"
        THEN kept(<<converted, created>>, Raised("engine: create"))
        ELSE IF fail = "export"
        THEN cleared(<<converted, created, exported>>, Raised("engine: export"))
        ELSE cleared(<<converted, created, exported>>, Returned(None))

ExtractOutcome(active, ids, clear, file_path, qarg, ext, fail) ==
    LET fmt       == ExtractFormat(file_path, ext)
        qs        == _get_actual_queries(active, qarg)
        converted == Call("result_network.convert_queries_to_data_entries", qs)
        created   == Call("ExtractorCreator.create",
                          [format |-> fmt, file_path |-> file_path, data_entries |-> qs,
                           data |-> result_data, skip |-> DefaultSkip])
        exported  == Call("extractor.export",
                          [writer |-> ExtractorWriter(fmt), file_path |-> file_path])
        kept(calls, result) ==
            [calls |-> calls, result |-> result, queries |-> active, queries_ids |-> ids]
    IN  IF fail = "convert"
        THEN kept(<<converted>>, Raised("engine: convert"))
        ELSE IF fail = "create" \/ ExtractorWriter(fmt) = "unsupported"
        THEN kept(<<converted, created>>, Raised("engine: create"))
        ELSE IF fail = "export"
        THEN kept(<<converted, created, exported>>, Raised("engine: export"))
        ELSE IF clear
        THEN LET c == ClearedQueries(active, ids)
             IN  [calls |-> <<converted, created, exported>>, result |-> Returned(None),
                  queries |-> c.queries, queries_ids |-> c.queries_ids]
        ELSE kept(<<converted, created, exported>>, Returned(None))

ExtractEffect(name, qarg, ext, fail) ==
    LET out == ExtractOutcome(queries, queries_ids, clear_queries_after_reading,
                              target, qarg, ext, fail)
    IN  /\ queries' = out.queries
        /\ queries_ids' = out.queries_ids
        /\ last' = Op(name, [file_path |-> target, queries |-> qarg, ext |-> ext],
                      out.calls, out.result)

Extract(qarg, ext, fail) ==
    /\ ExtractEffect("extract", qarg, ext, fail)
    /\ UNCHANGED <<config, engine>>

ToCsv(qarg, fail) ==
    /\ ExtractEffect("to_csv", qarg, Str(CSV), fail)
    /\ UNCHANGED <<config, engine>>

ToDfs0(qarg, fail) ==
    /\ ExtractEffect("to_dfs0", qarg, Str(DFS0), fail)
    /\ UNCHANGED <<config, engine>>

ToTxt(qarg, fail) ==
    /\ ExtractEffect("to_txt", qarg, Str(TXT), fail)
    /\ UNCHANGED <<config, engine>>

\* ------------------------------------------------------- specifications
Next ==
    \/ \E q \in QueryUniverse : AddQuery(q)
    \/ \E qarg \in QueryArgs, fail \in BOOLEAN : Read(qarg, fail)
    \/ \E fail \in BOOLEAN : ReadAll(fail)
    \/ ClearQueries
    \/ \E r \in Reaches, c \in Chainages, qt \in {"WaterLevel", "Discharge"},
          t \in Times, fail \in BOOLEAN : GetReachValue(r, c, qt, t, fail)

\* Reading: every construction, the active queries and the read operations.
Spec == Init /\ [][Next]_vars

\* Extraction with the active query list.
InitExtract ==
    \E clear \in BOOLEAN, tgt \in ExtractTargets :
        Construct(None, None, None, clear, FALSE, tgt)

NextExtract ==
    \/ \E q \in QueryUniverse : AddQuery(q)
    \/ \E qarg \in QueryArgs, fail \in BOOLEAN : Read(qarg, fail)
    \/ ClearQueries
    \/ \E qarg \in QueryArgs, ext \in ExtArgs, fail \in ExtractFailures : Extract(qarg, ext, fail)
    \/ \E qarg \in QueryArgs, fail \in ExtractFailures : ToCsv(qarg, fail)
    \/ \E qarg \in QueryArgs, fail \in ExtractFailures : ToDfs0(qarg, fail)
    \/ \E qarg \in QueryArgs, fail \in ExtractFailures : ToTxt(qarg, fail)

SpecExtract == InitExtract /\ [][NextExtract]_vars

\* The output format, over every output path.
InitFormat ==
    \E clear \in BOOLEAN, tgt \in Paths :
        Construct(None, None, None, clear, FALSE, tgt)

NextFormat ==
    \/ \E ext \in ExtArgs, fail \in ExtractFailures : Extract(None, ext, fail)
    \/ \E fail \in ExtractFailures : ToCsv(None, fail)
    \/ \E fail \in ExtractFailures : ToDfs0(None, fail)
    \/ \E fail \in ExtractFailures : ToTxt(None, fail)

SpecFormat == InitFormat /\ [][NextFormat]_vars

\* Writing back: modify and save.
InitWrite == Construct(None, None, None, TRUE, FALSE, DefaultTarget)

NextWrite ==
    \/ \E df \in DataFrames, fp \in {None} \cup SaveArgs, fail \in {"none", "modify", "save"} :
          Modify(df, fp, fail)
    \/ \E fp \in SaveArgs, fail \in BOOLEAN : Save(fp, fail)

SpecWrite == InitWrite /\ [][NextWrite]_vars
\* ------------------------------------------------------- properties
Completed    == last.result.status = "returned"
Failed       == last.result.status = "raised"
ExtractOps   == {"extract", "to_csv", "to_dfs0", "to_txt"}
CallsTo(fn)  == {i \in DOMAIN last.calls : last.calls[i].fn = fn}

\* C1: get_reach_value on a long-term-statistics file ends in
\* NotImplementedError whatever the reach, chainage, quantity and time are,
\* and neither the date-time conversion nor GetReachValue is called first.
C1_LtsNotImplemented ==
    (last.op = "get_reach_value" /\ lts_result_file) =>
        /\ last.result = Raised("NotImplementedError")
        /\ CallsTo("to_dotnet_datetime") = {}
        /\ CallsTo("query.GetReachValue") = {}

C1_Witness ==
    /\ last.op = "get_reach_value"
    /\ lts_result_file
    /\ last.args.time.kind = "datetime"
    /\ Failed

\* C2: whenever extract is given a format, the format handed to
\* ExtractorCreator.create is that format, whatever the extension of the
\* path; to_csv, to_dfs0 and to_txt hand over CSV, DFS0 and TXT and export
\* with the writer of that name.
C2_ExplicitFormatWins ==
    (last.op \in ExtractOps /\ last.args.ext # None) =>
        /\ \A i \in CallsTo("ExtractorCreator.create") :
              last.calls[i].arg.format = last.args.ext.s
        /\ last.op = "to_csv"  => last.args.ext = Str(CSV)
        /\ last.op = "to_dfs0" => last.args.ext = Str(DFS0)
        /\ last.op = "to_txt"  => last.args.ext = Str(TXT)
        /\ \A i \in CallsTo("extractor.export") :
              /\ last.op = "to_csv"  => last.calls[i].arg.writer = "CSV"
              /\ last.op = "to_dfs0" => last.calls[i].arg.writer = "DFS0"
              /\ last.op = "to_txt"  => last.calls[i].arg.writer = "TXT"
        /\ Completed => CallsTo("ExtractorCreator.create") # {}

C2_Witness ==
    /\ last.op = "to_csv"
    /\ Last(splitext(target)) = <<".", "txt">>
    /\ Completed

\* C3 (as claimed): with clear_queries_after_reading set, the active query
\* list is empty after every read or extract that completes.
C3_EmptyAfterReading ==
    (clear_queries_after_reading /\ last.op \in ExtractOps \cup {"read"} /\ Completed)
        => (queries = <<>> /\ queries_ids = {})

\* C4: a reader constructed with empty filter lists returns from read and
\* read_all what a reader constructed with those filters omitted returns.
NoneForEmpty(l) == IF l = ListOf(<<>>) THEN None ELSE l

FiltersOmitted ==
    [reaches    |-> NoneForEmpty(filters.reaches),
     nodes      |-> NoneForEmpty(filters.nodes),
     catchments |-> NoneForEmpty(filters.catchments)]

C4_EmptyFilterIsNoFilter ==
    /\ (last.op = "read" /\ Completed) =>
          last.result = ReadOutcome(FiltersOmitted, result_data, queries,
                                    last.args.queries, FALSE).result
    /\ (last.op = "read_all" /\ Completed) =>
          last.result = ReadAllOutcome(FiltersOmitted, result_data, FALSE).result

C4_Witness ==
    /\ last.op = "read"
    /\ last.args.queries = None
    /\ queries = <<>>
    /\ Completed
    /\ filters.reaches = ListOf(<<>>)
    /\ filters.nodes = None
    /\ filters.catchments = None
    /\ Len(last.result.value.columns) = 2 * MaxId

ExpectedReadList ==
    IF last.args.queries = None THEN queries
    ELSE IF last.args.queries.tag = "list" THEN last.args.queries.items
    ELSE <<last.args.queries.q>>

SavedInOrder(calls, from, file_path) ==
    /\ Len(calls) = from + 1
    /\ calls[from] = Call("data.Connection.FilePath.Path =", file_path.s)
    /\ calls[from + 1] = Call("data.Save", file_path.s)

C8_Step ==
    /\ last'.op = "modify" =>
          /\ last'.calls[1] = Call("result_writer.modify", last'.args.data_frame)
          /\ last'.args.file_path = None =>
                /\ Len(last'.calls) = 1
                /\ connection_path' = connection_path
                /\ saved' = saved
          /\ (last'.args.file_path # None /\ Len(last'.calls) > 1) =>
                /\ SavedInOrder(last'.calls, 2, last'.args.file_path)
                /\ connection_path' = last'.args.file_path.s
          /\ last'.result.status = "returned" =>
                /\ (Len(last'.calls) > 1) <=> (last'.args.file_path # None)
                /\ result_data' = Append(result_data, last'.args.data_frame)
                /\ last'.args.file_path # None =>
                      saved'[last'.args.file_path.s] = File(result_data')
    /\ last'.op = "save" =>
          /\ SavedInOrder(last'.calls, 1, last'.args.file_path)
          /\ connection_path' = last'.args.file_path.s
          /\ last'.result.status = "returned" =>
                saved'[last'.args.file_path.s] = File(result_data')

C8_ModifyThenSave == [][C8_Step]_vars

C8_Witness ==
    /\ last.op = "modify"
    /\ last.args.file_path # None
    /\ Completed
    /\ Len(last.calls) = 3
    /\ connection_path # OriginalPath
    /\ saved[connection_path] = File(result_data)

\* C9: with clear_queries_after_reading unset, extract leaves the active
\* query list and the active id collection as they were, with or without
\* explicit queries; and no step empties one of the two and not the other.
C9_Step ==
    /\ (last'.op \in ExtractOps /\ ~clear_queries_after_reading) =>
          (queries' = queries /\ queries_ids' = queries_ids)
    /\ (queries # <<>> /\ queries' = <<>>) <=> (queries_ids # {} /\ queries_ids' = {})

C9_QueriesKept == [][C9_Step]_vars

C9_Witness ==
    /\ last.op \in ExtractOps
    /\ ~clear_queries_after_reading
    /\ Completed
    /\ last.args.queries # None
    /\ queries # <<>>
    /\ queries_ids # {}

\* C6: with no format given, extract hands ExtractorCreator.create the
\* final extension of the path, and that extension selects the writer the
\* documented name selects: .csv the CSV writer, .dfs0 the DFS0 writer,
\* .txt the TXT writer.
\* A path has the extension .w when it ends in a dot and w, and its file
\* name holds something other than dots before that dot.
HasExtension(p, w) ==
    /\ Len(p) >= 3
    /\ p[Len(p)] = w
    /\ p[Len(p) - 1] = "."
    /\ \E j \in 1..(Len(p) - 2) :
          /\ p[j] # "."
          /\ \A k \in j..Len(p) : p[k] # "/"

C6_FormatFromExtension ==
    (last.op = "extract" /\ last.args.ext = None) =>
        /\ \A i \in CallsTo("ExtractorCreator.create") :
              /\ last.calls[i].arg.format = Last(splitext(last.args.file_path))
              /\ \A w \in {CSV, DFS0, TXT} :
                    HasExtension(last.args.file_path, w[1]) =>
                        /\ last.calls[i].arg.format = <<".">> \o w
                        /\ ExtractorWriter(last.calls[i].arg.format) = ExtractorWriter(w)
        /\ \A i \in CallsTo("extractor.export") :
              /\ last.calls[i].arg.writer = ExtractorWriter(Last(splitext(last.args.file_path)))
              /\ HasExtension(last.args.file_path, "csv")  => last.calls[i].arg.writer = "CSV"
              /\ HasExtension(last.args.file_path, "dfs0") => last.calls[i].arg.writer = "DFS0"
              /\ HasExtension(last.args.file_path, "txt")  => last.calls[i].arg.writer = "TXT"
        /\ Completed => CallsTo("extractor.export") # {}

C6_Witness ==
    /\ last.op = "extract"
    /\ last.args.ext = None
    /\ last.args.file_path = <<"txt", ".", "csv">>
    /\ Completed
    /\ \E i \in CallsTo("extractor.export") : last.calls[i].arg.writer = "CSV"

\* C10: a failure of the engine during extract reaches the caller as it was
\* raised, after one attempt, and leaves the active queries as they were
\* even with clear_queries_after_reading set; the queries are cleared only
\* once export has completed.
RaisedBy(fn) ==
    CASE fn = "result_network.convert_queries_to_data_entries" -> Raised("engine: convert")
      [] fn = "ExtractorCreator.create" -> Raised("engine: create")
      [] fn = "extractor.export" -> Raised("engine: export")
      [] OTHER -> Raised("none")

C10_Step ==
    last'.op \in ExtractOps =>
        /\ \A i, j \in DOMAIN last'.calls :
              last'.calls[i].fn = last'.calls[j].fn => i = j
        /\ last'.result.status = "raised" =>
              /\ last'.result = RaisedBy(Last(last'.calls).fn)
              /\ queries' = queries
              /\ queries_ids' = queries_ids
        /\ (queries' # queries \/ queries_ids' # queries_ids) =>
              /\ last'.result.status = "returned"
              /\ Last(last'.calls).fn = "extractor.export"

C10_FailureKeepsQueries == [][C10_Step]_vars

C10_Witness ==
    /\ last.op \in ExtractOps
    /\ clear_queries_after_reading
    /\ last.result = Raised("engine: export")
    /\ Len(last.calls) = 3
    /\ queries # <<>>
====
